---- MODULE Spec2Model ----
(***************************************************************************)
(* Model of connectoviz/visualization/circular_plot.py:                    *)
(*   plot_connectome_circle, _assign_node_colors, _draw_nodes, _draw_edges *)
(*                                                                         *)
(* Conventions                                                             *)
(*  - Python lists are TLA+ sequences; Python index k is TLA+ index k+1.   *)
(*  - Weights and line widths are integers in units of 0.1                 *)
(*    (4 stands for 0.4, a line width of 20 for 2.0).                      *)
(*  - An angle is the fraction num/den of a full turn (2*pi*num/den); a    *)
(*    point is an angle with a radius in units of 0.1 (10 is the unit      *)
(*    circle, 11 the label ring, radius 0 the centre (0,0)).               *)
(*  - An optional argument is a record [isNone, v].                        *)
(*  - Group identifiers are integers, a mutually comparable domain on      *)
(*    which sorted() is defined.                                           *)
(***************************************************************************)
EXTENDS Integers, Sequences, FiniteSets, TLC

\* ---------------------------------------------------------------- bounds
MaxN == 3

Weights == {-1, 0, 4}
Groups == {1, 2, 3}
ColorNames == {"red", "blue"}
CmapNames == {"tab20b", "viridis"}

\* ---------------------------------------------------------------- values
None == [isNone |-> TRUE, v |-> <<>>]
Some(x) == [isNone |-> FALSE, v |-> x]

NoError == [type |-> "", msg |-> "", missing |-> <<>>]
ValueError(m, miss) == [type |-> "ValueError", msg |-> m, missing |-> miss]

MsgSquare == "Matrix must be square."
MsgNames == "Region names must match matrix size."
MsgGroupLen == "Length of group_labels must match number of nodes."
MsgMissing == "Missing colors for groups"

DefaultCmap == "tab20b"

Range(s) == {s[k] : k \in DOMAIN s}

\* ------------------------------------------------- _assign_node_colors
RECURSIVE SortedSeq(_)
SortedSeq(S) ==
    IF S = {} THEN <<>>
    ELSE LET m == CHOOSE x \in S : \A y \in S : x <= y
         IN <<m>> \o SortedSeq(S \ {m})

RECURSIVE FirstAppearance(_)
FirstAppearance(gl) ==
    IF gl = <<>> THEN <<>>
    ELSE LET front == FirstAppearance(SubSeq(gl, 1, Len(gl) - 1))
             last == gl[Len(gl)]
         IN IF last \in Range(front) THEN front ELSE Append(front, last)

\* mutant: the distinct groups in order of first appearance, not sorted
UniqueGroupsUnsorted(gl) == FirstAppearance(gl)

\* unique_groups = sorted(set(group_labels))
UniqueGroups(gl) == SortedSeq(Range(gl))

\* cm.get_cmap(name, lut)(i): entry i of the palette resampled to lut entries
CmapColor(name, lut, i) == [kind |-> "cmap", name |-> name, lut |-> lut, idx |-> i]

\* a colour given by name
NamedColor(name) == [kind |-> "name", name |-> name, lut |-> 0, idx |-> 0]

\* position (0-based, as enumerate gives it) of g in the sequence ug
IndexOf(ug, g) == (CHOOSE p \in DOMAIN ug : ug[p] = g) - 1

Ok(colors) == [err |-> NoError, colors |-> colors]
Raise(e) == [err |-> e, colors |-> <<>>]

\* mutant: group_colors is looked up before the length of group_labels is checked
AssignNodeColorsCoverageFirst(group_labels, group_colors, group_cmap, n_nodes) ==
    IF group_labels.isNone THEN Ok([k \in 1..n_nodes |-> NamedColor("black")])
    ELSE
    LET gl == group_labels.v
        unique_groups == UniqueGroups(gl)
        missing == SelectSeq(unique_groups, LAMBDA g : g \notin DOMAIN group_colors.v)
    IN  IF ~group_colors.isNone /\ missing # <<>>
        THEN Raise(ValueError(MsgMissing, missing))
        ELSE IF Len(gl) # n_nodes THEN Raise(ValueError(MsgGroupLen, <<>>))
        ELSE IF ~group_colors.isNone
        THEN Ok([k \in 1..Len(gl) |-> group_colors.v[gl[k]]])
        ELSE Ok([k \in 1..Len(gl) |->
                    CmapColor(group_cmap, Len(unique_groups), IndexOf(unique_groups, gl[k]))])

\* mutant: the explicit mapping is ignored and the palette is always sampled
AssignNodeColorsIgnoreMapping(group_labels, group_colors, group_cmap, n_nodes) ==
    IF group_labels.isNone THEN Ok([k \in 1..n_nodes |-> NamedColor("black")])
    ELSE
    LET gl == group_labels.v
        unique_groups == UniqueGroups(gl)
    IN  IF Len(gl) # n_nodes THEN Raise(ValueError(MsgGroupLen, <<>>))
        ELSE Ok([k \in 1..Len(gl) |->
                    CmapColor(group_cmap, Len(unique_groups), IndexOf(unique_groups, gl[k]))])

\* mutant: the missing groups are collected from group_labels itself
AssignNodeColorsMissingFromLabels(group_labels, group_colors, group_cmap, n_nodes) ==
    IF group_labels.isNone THEN Ok([k \in 1..n_nodes |-> NamedColor("black")])
    ELSE
    LET gl == group_labels.v
        unique_groups == UniqueGroups(gl)
    IN  IF Len(gl) # n_nodes THEN Raise(ValueError(MsgGroupLen, <<>>))
        ELSE IF ~group_colors.isNone
        THEN LET missing == SelectSeq(gl, LAMBDA g : g \notin DOMAIN group_colors.v)
             IN  IF missing # <<>>
                 THEN Raise(ValueError(MsgMissing, missing))
                 ELSE Ok([k \in 1..Len(gl) |-> group_colors.v[gl[k]]])
        ELSE Ok([k \in 1..Len(gl) |->
                    CmapColor(group_cmap, Len(unique_groups), IndexOf(unique_groups, gl[k]))])

AssignNodeColors(group_labels, group_colors, group_cmap, n_nodes) ==
    IF group_labels.isNone THEN Ok([k \in 1..n_nodes |-> NamedColor("black")])
    ELSE
    LET gl == group_labels.v
    IN  IF Len(gl) # n_nodes THEN Raise(ValueError(MsgGroupLen, <<>>))
        ELSE
        LET unique_groups == UniqueGroups(gl)
        IN  IF ~group_colors.isNone
            THEN LET missing == SelectSeq(unique_groups,
                                          LAMBDA g : g \notin DOMAIN group_colors.v)
                 IN  IF missing # <<>>
                     THEN Raise(ValueError(MsgMissing, missing))
                     ELSE Ok([k \in 1..Len(gl) |-> group_colors.v[gl[k]]])
            ELSE LET color_map == [g \in Range(unique_groups) |->
                                      CmapColor(group_cmap, Len(unique_groups),
                                                IndexOf(unique_groups, g))]
                 IN  Ok([k \in 1..Len(gl) |-> color_map[gl[k]]])

\* ------------------------------------------------------------ geometry
\* np.linspace(0, 2*pi, n, endpoint=True): n samples, the last one at 2*pi
LinspaceClosed(n) == [k \in 1..n |-> [num |-> k - 1, den |-> IF n > 1 THEN n - 1 ELSE 1]]

\* angles = np.linspace(0, 2*pi, n_nodes, endpoint=False)
Linspace(n) == [k \in 1..n |-> [num |-> k - 1, den |-> n]]

Point(angle, r) == [num |-> angle.num, den |-> angle.den, r |-> r]
Centre == [num |-> 0, den |-> 1, r |-> 0]

\* coords = np.c_[np.cos(angles), np.sin(angles)]
Coords(angles) == [k \in DOMAIN angles |-> Point(angles[k], 10)]

\* (x * 1.1, y * 1.1)
LabelPos(p) == [p EXCEPT !.r = (p.r * 11) \div 10]

\* ------------------------------------------------------------ the matrix
Cells(rows, cols) == (0..(rows - 1)) \X (0..(cols - 1))
UpperCells(rows, cols) == {c \in Cells(rows, cols) : c[1] < c[2]}

\* a rows x cols array: the entries above the diagonal from up, all others fill
MatrixOf(rows, cols, up, fill) ==
    [rows |-> rows, cols |-> cols,
     val |-> [c \in Cells(rows, cols) |-> IF c[1] < c[2] THEN up[c] ELSE fill]]

\* mutant: the names are compared with the matrix before squareness is checked
ShapeErrorNamesFirst(m, names) ==
    IF m.rows # Len(names) THEN ValueError(MsgNames, <<>>)
    ELSE IF m.rows # m.cols THEN ValueError(MsgSquare, <<>>)
    ELSE NoError

\* input validation of plot_connectome_circle
ShapeError(m, names) ==
    IF m.rows # m.cols THEN ValueError(MsgSquare, <<>>)
    ELSE IF m.rows # Len(names) THEN ValueError(MsgNames, <<>>)
    ELSE NoError

\* ------------------------------------------------------------ draw calls
PlotCall(a, p, c) == [op |-> "plot", ax |-> a, at |-> p, marker |-> "o", color |-> c]
TextCall(a, p, s) == [op |-> "text", ax |-> a, at |-> p, s |-> s]
PatchCall(a, p1, p2, w) ==
    [op |-> "add_patch", ax |-> a, verts |-> <<p1, Centre, p2>>,
     edgecolor |-> "blue", lw |-> w * 5, alpha |-> 5, facecolor |-> "none"]

\* mutant: zero weights are drawn too
EdgeDrawnNonNegative(weight) == weight >= 0

\* if weight > 0
EdgeDrawn(weight) == weight > 0

\* mutant: the entry below the diagonal is read
EdgeWeightTransposed(m, a, b) == m.val[<<b, a>>]

\* weight = matrix[i, j]
EdgeWeight(m, a, b) == m.val[<<a, b>>]

\* ------------------------------------------------------------ the state
VARIABLES matrix, region_names, group_labels, group_colors, group_cmap, ax_in,
          pc, err, n_nodes, coords, node_colors, ax, figs, axis_off, calls,
          shown, i, j

inputs == <<matrix, region_names, group_labels, group_colors, group_cmap, ax_in>>
vars == <<matrix, region_names, group_labels, group_colors, group_cmap, ax_in,
          pc, err, n_nodes, coords, node_colors, ax, figs, axis_off, calls,
          shown, i, j>>

\* mutant: the figure is set up before the colours are resolved
PhasesSetupFirst ==
    <<"validate", "layout", "setup", "colors", "nodes", "edges", "show", "done">>

\* mutant: the edges are drawn before the nodes
PhasesEdgesFirst ==
    <<"validate", "layout", "colors", "setup", "edges", "nodes", "show", "done">>

\* the statements of plot_connectome_circle, in order
Phases ==
    <<"validate", "layout", "colors", "setup", "nodes", "edges", "show", "done">>

After(p) == Phases[(CHOOSE k \in DOMAIN Phases : Phases[k] = p) + 1]

\* ------------------------------------------------------------ the inputs
SeqsUpTo(S, n) == UNION {[1..m -> S] : m \in 0..n}

\* region names, as opaque identifiers: in ascending or in descending order
NameLists(len) == {[k \in 1..len |-> 100 + (k - 1)], [k \in 1..len |-> 100 + (len - k)]}

\* explicit mappings with arbitrary colours, for any subset of the groups
ColorMaps == UNION {[D -> {NamedColor(c) : c \in ColorNames}] : D \in SUBSET Groups}

\* explicit mappings that give group g its own colour, for any subset of the groups
GroupColorName == [g \in Groups |-> IF g = 1 THEN "red" ELSE IF g = 2 THEN "blue" ELSE "green"]
KeyedColorMaps == {[g \in D |-> NamedColor(GroupColorName[g])] : D \in SUBSET Groups}

Optional(S) == {None} \cup {Some(x) : x \in S}

\* calls with every square matrix of the family, no grouping
EdgeInputs ==
    {[matrix |-> MatrixOf(n, n, up, fill), region_names |-> names,
      group_labels |-> None, group_colors |-> None, group_cmap |-> DefaultCmap,
      ax_in |-> a] :
        <<n, up, fill, names, a>> \in
            UNION {{<<n, up, fill, names, a>> :
                       up \in [UpperCells(n, n) -> Weights], fill \in Weights,
                       names \in NameLists(n), a \in Optional({"ax0"})} :
                   n \in 0..MaxN}}

\* calls with every shape of matrix and names and every grouping, all weights 0.4
ShapeInputs ==
    {[matrix |-> MatrixOf(x[1], x[2], [c \in UpperCells(x[1], x[2]) |-> 4], 4),
      region_names |-> [k \in 1..x[3] |-> 100 + (k - 1)],
      group_labels |-> x[4], group_colors |-> x[5], group_cmap |-> DefaultCmap,
      ax_in |-> x[6]] :
        x \in (0..MaxN) \X (0..MaxN) \X (0..MaxN) \X Optional(SeqsUpTo(Groups, MaxN))
               \X Optional(KeyedColorMaps) \X Optional({"ax0"})}

RenderInputs == EdgeInputs \cup ShapeInputs

\* state on entry of plot_connectome_circle
Init ==
    /\ \E inp \in RenderInputs :
          /\ matrix = inp.matrix
          /\ region_names = inp.region_names
          /\ group_labels = inp.group_labels
          /\ group_colors = inp.group_colors
          /\ group_cmap = inp.group_cmap
          /\ ax_in = inp.ax_in
    /\ ax = ax_in
    /\ pc = Phases[1]
    /\ err = NoError
    /\ n_nodes = 0
    /\ coords = <<>>
    /\ node_colors = <<>>
    /\ figs = 0
    /\ axis_off = FALSE
    /\ calls = <<>>
    /\ shown = FALSE
    /\ i = 0
    /\ j = 1

Goto(p) == /\ pc' = After(p)
           /\ i' = 0
           /\ j' = 1

\* ------------------------------------------------ plot_connectome_circle
Validate ==
    /\ pc = "validate"
    /\ LET e == ShapeError(matrix, region_names)
       IN  IF e # NoError
           THEN /\ pc' = "error"
                /\ err' = e
                /\ UNCHANGED <<i, j>>
           ELSE /\ Goto("validate")
                /\ UNCHANGED err
    /\ UNCHANGED <<inputs, n_nodes, coords, node_colors, ax, figs, axis_off, calls, shown>>

Layout ==
    /\ pc = "layout"
    /\ n_nodes' = Len(region_names)
    /\ coords' = Coords(Linspace(n_nodes'))
    /\ Goto("layout")
    /\ UNCHANGED <<inputs, err, node_colors, ax, figs, axis_off, calls, shown>>

ResolveColors ==
    /\ pc = "colors"
    /\ LET r == AssignNodeColors(group_labels, group_colors, group_cmap, n_nodes)
       IN  IF r.err # NoError
           THEN /\ pc' = "error"
                /\ err' = r.err
                /\ UNCHANGED <<node_colors, i, j>>
           ELSE /\ node_colors' = r.colors
                /\ Goto("colors")
                /\ UNCHANGED err
    /\ UNCHANGED <<inputs, n_nodes, coords, ax, figs, axis_off, calls, shown>>

SetupAxis ==
    /\ pc = "setup"
    /\ IF ax.isNone
       THEN /\ ax' = Some("ax1")
            /\ figs' = figs + 1
            /\ axis_off' = TRUE
       ELSE UNCHANGED <<ax, figs, axis_off>>
    /\ Goto("setup")
    /\ UNCHANGED <<inputs, err, n_nodes, coords, node_colors, calls, shown>>

\* one iteration of the loop of _draw_nodes, or its exit
DrawNodes ==
    /\ pc = "nodes"
    /\ IF i < Len(coords)
       THEN /\ calls' = calls \o <<PlotCall(ax, coords[i + 1], node_colors[i + 1]),
                                   TextCall(ax, LabelPos(coords[i + 1]), region_names[i + 1])>>
            /\ i' = i + 1
            /\ UNCHANGED <<pc, j>>
       ELSE /\ Goto("nodes")
            /\ UNCHANGED calls
    /\ UNCHANGED <<inputs, err, n_nodes, coords, node_colors, ax, figs, axis_off, shown>>

\* one iteration of the inner loop of _draw_edges, the step of its outer loop, or its exit
DrawEdges ==
    /\ pc = "edges"
    /\ IF i >= Len(coords)
       THEN /\ Goto("edges")
            /\ UNCHANGED calls
       ELSE IF j >= Len(coords)
       THEN /\ i' = i + 1
            /\ j' = i + 2
            /\ UNCHANGED <<pc, calls>>
       ELSE /\ LET weight == EdgeWeight(matrix, i, j)
               IN  calls' = IF EdgeDrawn(weight)
                            THEN Append(calls, PatchCall(ax, coords[i + 1], coords[j + 1], weight))
                            ELSE calls
            /\ j' = j + 1
            /\ UNCHANGED <<pc, i>>
    /\ UNCHANGED <<inputs, err, n_nodes, coords, node_colors, ax, figs, axis_off, shown>>

\* if ax is None: plt.show()
Show ==
    /\ pc = "show"
    /\ shown' = (shown \/ ax.isNone)
    /\ Goto("show")
    /\ UNCHANGED <<inputs, err, n_nodes, coords, node_colors, ax, figs, axis_off, calls>>

Next ==
    \/ Validate
    \/ Layout
    \/ ResolveColors
    \/ SetupAxis
    \/ DrawNodes
    \/ DrawEdges
    \/ Show

Spec == Init /\ [][Next]_vars

\* ---------------------------------- _assign_node_colors called on its own
ColorInputs ==
    Optional(SeqsUpTo(Groups, MaxN)) \X Optional(ColorMaps) \X CmapNames \X (0..MaxN)

InitColors ==
    /\ \E x \in ColorInputs :
          /\ group_labels = x[1]
          /\ group_colors = x[2]
          /\ group_cmap = x[3]
          /\ n_nodes = x[4]
    /\ matrix = MatrixOf(0, 0, <<>>, 0)
    /\ region_names = <<>>
    /\ ax_in = None
    /\ ax = None
    /\ pc = "call"
    /\ err = NoError
    /\ coords = <<>>
    /\ node_colors = <<>>
    /\ figs = 0
    /\ axis_off = FALSE
    /\ calls = <<>>
    /\ shown = FALSE
    /\ i = 0
    /\ j = 1

CallAssignNodeColors ==
    /\ pc = "call"
    /\ LET r == AssignNodeColors(group_labels, group_colors, group_cmap, n_nodes)
       IN  /\ err' = r.err
           /\ node_colors' = r.colors
           /\ pc' = IF r.err # NoError THEN "raised" ELSE "returned"
    /\ UNCHANGED <<inputs, n_nodes, coords, ax, figs, axis_off, calls, shown, i, j>>

NextColors == CallAssignNodeColors

SpecColors == InitColors /\ [][NextColors]_vars

\* ================================================================ claims
Rows == matrix.rows
NLabels == Len(region_names)
Plots == SelectSeq(calls, LAMBDA c : c.op = "plot")
Texts == SelectSeq(calls, LAMBDA c : c.op = "text")
Patches == SelectSeq(calls, LAMBDA c : c.op = "add_patch")
Slot(k, n, r) == [num |-> k, den |-> n, r |-> r]
EdgeIdx(c) == <<c.verts[1].num, c.verts[3].num>>
LexLess(a, b) == a[1] < b[1] \/ (a[1] = b[1] /\ a[2] < b[2])
Entered == pc # "validate"

\* C1: a call with a non-square matrix, or a square matrix whose size differs
\* from the number of region names, ends with the ValueError of the shape
\* check and never gets past validation; a matrix that is both non-square and
\* mismatched with the names reports "Matrix must be square."
C1_ShapeErrors ==
    (Entered /\ (Rows # matrix.cols \/ Rows # NLabels)) =>
        /\ pc = "error"
        /\ err.type = "ValueError"
        /\ err.msg = IF Rows # matrix.cols THEN MsgSquare ELSE MsgNames
        /\ calls = <<>>

C1_Witness ==
    /\ pc = "error"
    /\ Rows = 3 /\ matrix.cols = 2 /\ NLabels = 2
    /\ err.msg = MsgSquare

\* C2: whenever the call has failed, with any of its three errors, nothing has
\* been drawn, no surface has been created and nothing has been displayed.
C2_NoDrawOnError ==
    pc = "error" =>
        /\ err.type = "ValueError"
        /\ err.msg \in {MsgSquare, MsgNames, MsgGroupLen, MsgMissing}
        /\ calls = <<>>
        /\ figs = 0
        /\ ax = ax_in
        /\ ~axis_off
        /\ ~shown

C2_Witness ==
    /\ pc = "error"
    /\ err.msg = MsgMissing
    /\ ax_in.isNone
    /\ Rows = 3

\* C3: once the edge loop is over, the edges drawn are exactly the pairs (a, b),
\* a < b, with matrix[a, b] > 0, each once, from node a through the centre to
\* node b with line width matrix[a, b] * 5; the entries on and below the
\* diagonal play no part.
C3_EdgesDrawn ==
    pc \in {"show", "done"} =>
        LET positive == {c \in UpperCells(Rows, Rows) : matrix.val[c] > 0}
        IN  /\ {<<e.verts, e.lw>> : e \in Range(Patches)} =
                  {<<<<Slot(c[1], Rows, 10), Slot(0, 1, 0), Slot(c[2], Rows, 10)>>,
                     matrix.val[c] * 5>> : c \in positive}
            /\ Len(Patches) = Cardinality(positive)

C3_Witness ==
    /\ pc = "done"
    /\ Rows = 3
    /\ matrix.val[<<0, 1>>] = 4 /\ matrix.val[<<0, 2>>] = 0 /\ matrix.val[<<1, 2>>] = -1
    /\ matrix.val[<<1, 0>>] = 4 /\ matrix.val[<<1, 1>>] = 4
    /\ Len(Patches) = 1
    /\ Patches[1].lw = 20

\* C4: once the node loop is over, exactly N markers and N labels have been
\* drawn, the k-th marker at slot k of N on the unit circle in the resolved
\* colour of node k, the k-th label at slot k of N on the label ring with
\* region_names[k].
C4_NodesAndLabels ==
    pc \in {"edges", "show", "done"} =>
        LET resolved == AssignNodeColors(group_labels, group_colors, group_cmap, NLabels).colors
        IN  /\ Len(Plots) = NLabels
            /\ Len(Texts) = NLabels
            /\ \A k \in 0..(NLabels - 1) :
                  /\ Plots[k + 1].at = Slot(k, NLabels, 10)
                  /\ Plots[k + 1].color = resolved[k + 1]
                  /\ Texts[k + 1].at = Slot(k, NLabels, 11)
                  /\ Texts[k + 1].s = region_names[k + 1]

C4_Witness ==
    /\ pc = "done"
    /\ NLabels = 3
    /\ group_labels = Some(<<2, 1, 2>>)
    /\ group_colors.isNone
    /\ Plots[3].at = Slot(2, 3, 10)

\* C5: a successful call without a surface creates one, draws into it and
\* displays it; a call with a surface displays nothing.
C5_DisplayOfNewSurface ==
    pc = "done" =>
        IF ax_in.isNone
        THEN /\ figs = 1
             /\ \A p \in DOMAIN calls : calls[p].ax = Some("ax1")
             /\ shown
        ELSE /\ figs = 0
             /\ ~shown

\* C10: the draw calls come in a fixed order: marker 0, label 0, marker 1,
\* label 1, ..., then the edges in lexicographic order of (a, b); no edge comes
\* before the last label, and a finished call has drawn every marker and label.
C10_DrawOrder ==
    /\ \A p \in DOMAIN calls :
          IF p <= 2 * NLabels
          THEN IF p % 2 = 1
               THEN calls[p].op = "plot" /\ calls[p].at = Slot((p - 1) \div 2, NLabels, 10)
               ELSE calls[p].op = "text" /\ calls[p].at = Slot((p \div 2) - 1, NLabels, 11)
          ELSE /\ calls[p].op = "add_patch"
               /\ EdgeIdx(calls[p])[1] < EdgeIdx(calls[p])[2]
               /\ p > 2 * NLabels + 1 => LexLess(EdgeIdx(calls[p - 1]), EdgeIdx(calls[p]))
    /\ pc \in {"show", "done"} => Len(calls) >= 2 * NLabels

C10_Witness ==
    /\ pc = "done"
    /\ NLabels = 3
    /\ Len(calls) = 9
    /\ EdgeIdx(calls[7]) = <<0, 1>> /\ EdgeIdx(calls[8]) = <<0, 2>> /\ EdgeIdx(calls[9]) = <<1, 2>>

\* ------------------------------------------------ claims on colour resolution
Returned == pc \in {"raised", "returned"}
Labels == group_labels.v
Mapping == group_colors.v

\* C6: with group_labels of the right length and an explicit mapping, the
\* missing-colour error is raised exactly when some group of group_labels is
\* not a key of the mapping, and it lists exactly those groups, each once, in
\* ascending order; keys no node uses are harmless.
C6_MissingGroupColors ==
    (Returned /\ ~group_labels.isNone /\ Len(Labels) = n_nodes /\ ~group_colors.isNone) =>
        LET absent == Range(Labels) \ DOMAIN Mapping
        IN  /\ (err.msg = MsgMissing) <=> (absent # {})
            /\ (absent = {}) => (err = NoError)
            /\ (absent # {}) =>
                  /\ err.type = "ValueError"
                  /\ Range(err.missing) = absent
                  /\ Len(err.missing) = Cardinality(absent)
                  /\ \A p, q \in DOMAIN err.missing : p < q => err.missing[p] < err.missing[q]

C6_Witness ==
    /\ pc = "raised"
    /\ group_labels = Some(<<3, 1, 3>>)
    /\ ~group_colors.isNone
    /\ DOMAIN Mapping = {2}
    /\ err.missing = <<1, 3>>

\* C7: group_labels of a length other than n_nodes raises the length error,
\* also when the mapping is incomplete; without group_labels nothing is raised.
C7_GroupLabelLength ==
    Returned =>
        /\ (~group_labels.isNone /\ Len(Labels) # n_nodes) =>
              (pc = "raised" /\ err.type = "ValueError" /\ err.msg = MsgGroupLen)
        /\ group_labels.isNone => (pc = "returned" /\ err = NoError)

C7_Witness ==
    /\ pc = "raised"
    /\ group_labels = Some(<<1, 2>>)
    /\ n_nodes = 3
    /\ ~group_colors.isNone
    /\ DOMAIN Mapping = {1}
    /\ err.msg = MsgGroupLen

\* C8: with group_labels of the right length and a mapping that covers every
\* group, the result has n_nodes colours, the k-th being the mapped colour of
\* the k-th node's group, whatever the palette name.
C8_MappedColors ==
    (Returned /\ ~group_labels.isNone /\ Len(Labels) = n_nodes /\ ~group_colors.isNone
       /\ Range(Labels) \subseteq DOMAIN Mapping) =>
        /\ pc = "returned"
        /\ Len(node_colors) = n_nodes
        /\ \A k \in 1..n_nodes : node_colors[k] = Mapping[Labels[k]]

C8_Witness ==
    /\ pc = "returned"
    /\ group_labels = Some(<<1, 2, 1>>)
    /\ ~group_colors.isNone
    /\ DOMAIN Mapping = {1, 2}
    /\ group_cmap = "viridis"
    /\ node_colors = <<NamedColor("red"), NamedColor("blue"), NamedColor("red")>>

\* C9: with group_labels and no mapping, node k gets entry number
\* rank(group of k) of the palette resampled to K entries, K the number of
\* distinct groups and rank the number of distinct groups below it; two nodes
\* share an entry exactly when they share a group.
C9_PaletteByRank ==
    (Returned /\ ~group_labels.isNone /\ Len(Labels) = n_nodes /\ group_colors.isNone) =>
        /\ pc = "returned"
        /\ Len(node_colors) = n_nodes
        /\ \A k \in 1..n_nodes :
              /\ node_colors[k].kind = "cmap"
              /\ node_colors[k].name = group_cmap
              /\ node_colors[k].lut = Cardinality(Range(Labels))
              /\ node_colors[k].idx = Cardinality({g \in Range(Labels) : g < Labels[k]})
        /\ \A k, l \in 1..n_nodes :
              (node_colors[k].idx = node_colors[l].idx) <=> (Labels[k] = Labels[l])

C9_Witness ==
    /\ pc = "returned"
    /\ group_labels = Some(<<3, 1, 3>>)
    /\ group_colors.isNone
    /\ node_colors[1].idx = 1 /\ node_colors[2].idx = 0 /\ node_colors[3].idx = 1

====
